---------------------------- MODULE Spec2Model ----------------------------
(***************************************************************************)
(* A model of the pywincffi C definitions:                                 *)
(*   - the FD Adapter of core/cdefs/sources/main.c (handle_from_fd,        *)
(*     socket_from_fd) on top of the CRT descriptor table and the host     *)
(*     runtime's object heap;                                              *)
(*   - the Constant Table of core/cdefs/headers/constants.h and its        *)
(*     literal fallbacks in main.c;                                        *)
(*   - the two revisions of the Function Signature Table                   *)
(*     (headers/kernel32.h, core/cdefs/headers/functions.h);               *)
(*   - the OVERLAPPED record of core/cdefs/headers/structs.h.              *)
(* Each part has its own specification (SpecFd, SpecConst, SpecFunc,       *)
(* SpecOv); the variables of the other parts stay at their idle values.    *)
(***************************************************************************)
EXTENDS Integers, Sequences, FiniteSets, TLC

VARIABLES
    build,      \* "win32" | "win64": MS_WIN64 undefined / defined at build time
    osfhnd,     \* the CRT descriptor table: fd -> [open, h]
    heap,       \* the host runtime's live objects: address -> [val, rc]
    crashed,    \* the process was terminated by the CRT
    ncalls,     \* number of adapter calls made so far
    last,       \* what the last adapter call did
    sdk,        \* the platform headers: name -> value, for the names they define
    cenv,       \* the names the compiled C source defines: name -> [val, from]
    phase,      \* "compile" | "bind" | "done" | "error" (idle: "off")
    spos,       \* the next fallback block of main.c to compile
    cpos,       \* the next '#define NAME ...' line of constants.h to bind
    lib,        \* the constants exposed so far: name -> [val, from]
    missing,    \* the name the error message names, "" when there is none
    dups,       \* the names bound by more than one line
    k32pos,     \* the next declaration of headers/kernel32.h to read
    fnpos,      \* the next declaration of core/cdefs/headers/functions.h
    stubs1,     \* the stubs made from kernel32.h: name -> [ret, params]
    stubs2,     \* the stubs made from functions.h: name -> [ret, params]
    ovMem,      \* the bytes of one OVERLAPPED record: offset -> byte
    ovLast      \* the last store to the record: [field, val]

fdVars == <<build, osfhnd, heap, crashed, ncalls, last>>

constVars == <<sdk, cenv, phase, spos, cpos, lib, missing, dups>>

funcVars == <<k32pos, fnpos, stubs1, stubs2>>

ovVars == <<ovMem, ovLast>>

vars == <<fdVars, constVars, funcVars, ovVars>>

(***************************************************************************)
(*                              FD Adapter                                 *)
(***************************************************************************)

\* Descriptors 0..MaxFd are slots of the CRT descriptor table.
MaxFd == 2

\* At most MaxCalls adapter calls are made in one behaviour.
MaxCalls == 3

\* The value the CRT returns for a descriptor it does not know
\* (constants.h: "When cffi parses the header this returns -1").
INVALID_HANDLE_VALUE == -1

\* A free slot of the descriptor table: FOPEN clear, no handle.
Closed == [open |-> FALSE, h |-> INVALID_HANDLE_VALUE]

\* A slot in use: FOPEN set, the handle the descriptor was opened on.
Open(h) == [open |-> TRUE, h |-> h]

\* Native handles the operating system may have given to a descriptor.
Handles == {100, 104}

Fds == 0..MaxFd

\* A descriptor number beyond the runtime's cache of small integers.
BigFd == 300 + MaxFd

\* The int arguments the adapter is called with: table slots, -1, a slot
\* past the end of the table, and a large socket number.
FdArgs == (-1..(MaxFd + 1)) \cup {BigFd}

\* The width of a pointer in bytes: 8 when MS_WIN64 is defined, else 4.
PointerSize(b) == IF b = "win64" THEN 8 ELSE 4

\* SIZEOF_SOCKET_T: the width of SOCKET, that of a pointer.
SizeofSocketT(b) == PointerSize(b)

\* sizeof(long) of the platform's compilers, 4 on both builds.
SizeofLong(b) == 4

\* An address is the pair of its high and low 32-bit halves; a 4-byte
\* address has a zero high half.
Addr(hi, lo) == [hi |-> hi, lo |-> lo]

NULL == Addr(0, 0)

\* Where the runtime keeps its cached small integers, and where its
\* allocator may place a new object.
HiHalf(b) == IF b = "win64" THEN 1 ELSE 0

CacheAddr(b, v) == Addr(HiHalf(b), 65536 + 16 * (v + 5))

PoolAddrs(b) == {Addr(HiHalf(b), 131072 + 16 * i) : i \in 0..(MaxCalls - 1)}

\* The runtime keeps one shared object for every integer in -5..256.
SmallInts == (-5)..256

\* (SOCKET)(fd): the int widened to SOCKET and taken as the signed
\* argument of PyLong_FromLong / PyLong_FromLongLong, which gives the
\* number fd again on both builds.
ToSocket(b, fd) == fd

\* (int)p for a pointer p: the low 32 bits of the address.
PtrToInt(p) == p.lo

\* _get_osfhandle(fd): the handle of an open descriptor.  For a descriptor
\* that is out of range or not open the CRT invokes the invalid parameter
\* handler: the process is terminated, or, when the handler lets execution
\* continue, the call returns INVALID_HANDLE_VALUE.
GetOsfhandle(tbl, fd) ==
    IF fd \in DOMAIN tbl /\ tbl[fd].open
    THEN {[kind |-> "ret", val |-> tbl[fd].h]}
    ELSE {[kind |-> "ret", val |-> INVALID_HANDLE_VALUE],
          [kind |-> "abort", val |-> INVALID_HANDLE_VALUE]}

\* handle_from_fd(fd): return (HANDLE)_get_osfhandle(fd);
HandleFromFdOutcomes(tbl, fd) == GetOsfhandle(tbl, fd)

\* PyLong_FromLong / PyLong_FromLongLong: a new reference to an integer
\* object.  A value of the small-integer cache yields the shared object
\* with its reference count raised; any other value yields a new object
\* with reference count 1 at an address the allocator picks.
PyLongFrom(b, h, v) ==
    IF v \in SmallInts /\ CacheAddr(b, v) \in DOMAIN h
    THEN {[obj |-> CacheAddr(b, v),
           heap |-> [h EXCEPT ![CacheAddr(b, v)].rc = @ + 1]]}
    ELSE {[obj |-> a,
           heap |-> [x \in DOMAIN h \cup {a} |->
                        IF x = a THEN [val |-> v, rc |-> 1] ELSE h[x]]]
          : a \in PoolAddrs(b) \ DOMAIN h}

PyLongFromLong(b, h, v) == PyLongFrom(b, h, v)

PyLongFromLongLong(b, h, v) == PyLongFrom(b, h, v)

\* PyLong_FromSocket_t(fd): PyLong_FromLong((SOCKET)(fd)) when SOCKET fits
\* a long, PyLong_FromLongLong((SOCKET)(fd)) otherwise.
PyLongFromSocketT(b, h, fd) ==
    IF SizeofSocketT(b) <= SizeofLong(b)
    THEN PyLongFromLong(b, h, ToSocket(b, fd))
    ELSE PyLongFromLongLong(b, h, ToSocket(b, fd))

NoCall == [op |-> "none", fd |-> 0, native |-> 0, obj |-> NULL,
           hfArg |-> 0, kind |-> "none", ret |-> 0]

\* The state before the first call: any descriptor table, the runtime's
\* cached integers alive.
InitFd ==
    /\ build \in {"win32", "win64"}
    /\ osfhnd \in [Fds -> {Open(h) : h \in Handles} \cup {Closed}]
    /\ heap = [a \in {CacheAddr(build, v) : v \in (-1)..(MaxFd + 1)} |->
                 [val |-> (a.lo - 65536) \div 16 - 5, rc |-> 1]]
    /\ crashed = FALSE
    /\ ncalls = 0
    /\ last = NoCall

\* A call of handle_from_fd(fd) by the application.
CallHandleFromFd ==
    /\ ~crashed
    /\ ncalls < MaxCalls
    /\ \E fd \in FdArgs :
         \E r \in HandleFromFdOutcomes(osfhnd, fd) :
            /\ last' = [NoCall EXCEPT !.op = "handle_from_fd", !.fd = fd,
                                      !.hfArg = fd, !.kind = r.kind,
                                      !.ret = r.val]
            /\ crashed' = (r.kind = "abort")
    /\ ncalls' = ncalls + 1
    /\ UNCHANGED <<build, osfhnd, heap>>

\* A call of socket_from_fd(fd) by the application:
\*     int value = (int)PyLong_FromSocket_t(fd);
\*     return handle_from_fd(value);
CallSocketFromFd ==
    /\ ~crashed
    /\ ncalls < MaxCalls
    /\ \E fd \in FdArgs :
         \E o \in PyLongFromSocketT(build, heap, fd) :
            LET value == PtrToInt(o.obj) IN
            \E r \in HandleFromFdOutcomes(osfhnd, value) :
               /\ heap' = o.heap
               /\ last' = [op |-> "socket_from_fd", fd |-> fd,
                           native |-> ToSocket(build, fd), obj |-> o.obj,
                           hfArg |-> value, kind |-> r.kind, ret |-> r.val]
               /\ crashed' = (r.kind = "abort")
    /\ ncalls' = ncalls + 1
    /\ UNCHANGED <<build, osfhnd>>


\* The FD Adapter at rest, for the specifications of the other parts.
IdleFd ==
    /\ osfhnd = [fd \in Fds |-> Closed]
    /\ heap = << >>
    /\ crashed = FALSE
    /\ ncalls = 0
    /\ last = NoCall

\* C1: handle_from_fd(fd) returns the handle the descriptor table holds for
\* an open fd, and for any other fd returns the invalid-handle sentinel as
\* an ordinary return value, without terminating the process.
C1_HandleFromFdTotal ==
    last.op = "handle_from_fd" =>
        /\ last.kind = "ret"
        /\ ~crashed
        /\ last.ret = IF last.fd \in DOMAIN osfhnd /\ osfhnd[last.fd].open
                      THEN osfhnd[last.fd].h
                      ELSE INVALID_HANDLE_VALUE

\* C2: the value socket_from_fd hands to handle_from_fd is the native
\* socket integer of fd, not any other quantity the conversion produces.
C2_SocketValuePassed ==
    last.op = "socket_from_fd" => last.hfArg = last.native

\* C8: no call of the adapter changes the descriptor table, the open
\* handles or the runtime's live objects and their reference counts.
C8_AdapterStateless == [][osfhnd' = osfhnd /\ heap' = heap]_vars

(***************************************************************************)
(*                            Constant Table                               *)
(***************************************************************************)

\* constants.h: the names of its '#define NAME ...' lines, in file order.
ConstantsH == <<
    "MAX_PATH", "STD_INPUT_HANDLE", "STD_OUTPUT_HANDLE",
    "STD_ERROR_HANDLE", "PROCESS_CREATE_PROCESS", "PROCESS_CREATE_THREAD",
    "PROCESS_DUP_HANDLE", "PROCESS_QUERY_INFORMATION",
    "PROCESS_QUERY_LIMITED_INFORMATION", "PROCESS_SET_INFORMATION",
    "PROCESS_SET_QUOTA", "PROCESS_SUSPEND_RESUME", "PROCESS_TERMINATE",
    "PROCESS_VM_OPERATION", "PROCESS_VM_READ", "PROCESS_VM_WRITE",
    "STILL_ACTIVE", "CREATE_BREAKAWAY_FROM_JOB",
    "CREATE_PROTECTED_PROCESS", "CREATE_DEFAULT_ERROR_MODE",
    "CREATE_NEW_CONSOLE", "CREATE_NEW_PROCESS_GROUP", "CREATE_NO_WINDOW",
    "CREATE_PROTECTED_PROCESS", "CREATE_PRESERVE_CODE_AUTHZ_LEVEL",
    "CREATE_SEPARATE_WOW_VDM", "CREATE_SHARED_WOW_VDM", "CREATE_SUSPENDED",
    "CREATE_UNICODE_ENVIRONMENT", "DEBUG_ONLY_THIS_PROCESS",
    "DEBUG_PROCESS", "DETACHED_PROCESS", "EXTENDED_STARTUPINFO_PRESENT",
    "WAIT_ABANDONED", "WAIT_OBJECT_0", "WAIT_TIMEOUT", "WAIT_FAILED",
    "INFINITE", "SYNCHRONIZE", "FILE_GENERIC_READ", "FILE_GENERIC_WRITE",
    "FILE_GENERIC_EXECUTE", "FILE_ADD_FILE", "FILE_ADD_SUBDIRECTORY",
    "FILE_ALL_ACCESS", "FILE_APPEND_DATA", "FILE_CREATE_PIPE_INSTANCE",
    "FILE_DELETE_CHILD", "FILE_EXECUTE", "FILE_LIST_DIRECTORY",
    "FILE_READ_ATTRIBUTES", "FILE_READ_DATA", "FILE_READ_EA",
    "FILE_TRAVERSE", "FILE_WRITE_ATTRIBUTES", "FILE_WRITE_DATA",
    "FILE_WRITE_EA", "FILE_SHARE_DELETE", "FILE_SHARE_READ",
    "FILE_SHARE_WRITE", "FILE_ATTRIBUTE_ARCHIVE",
    "FILE_ATTRIBUTE_ENCRYPTED", "FILE_ATTRIBUTE_HIDDEN",
    "FILE_ATTRIBUTE_NORMAL", "FILE_ATTRIBUTE_OFFLINE",
    "FILE_ATTRIBUTE_READONLY", "FILE_ATTRIBUTE_SYSTEM",
    "FILE_ATTRIBUTE_TEMPORARY", "FILE_FLAG_BACKUP_SEMANTICS",
    "FILE_FLAG_DELETE_ON_CLOSE", "FILE_FLAG_NO_BUFFERING",
    "FILE_FLAG_OPEN_NO_RECALL", "FILE_FLAG_OPEN_REPARSE_POINT",
    "FILE_FLAG_OVERLAPPED", "FILE_FLAG_POSIX_SEMANTICS",
    "FILE_FLAG_RANDOM_ACCESS", "FILE_FLAG_SESSION_AWARE",
    "FILE_FLAG_SEQUENTIAL_SCAN", "FILE_FLAG_WRITE_THROUGH",
    "CREATE_ALWAYS", "CREATE_NEW", "OPEN_ALWAYS", "OPEN_EXISTING",
    "TRUNCATE_EXISTING", "PIPE_TYPE_MESSAGE", "PIPE_READMODE_BYTE",
    "PIPE_READMODE_MESSAGE", "PIPE_WAIT", "PIPE_NOWAIT", "PIPE_CLIENT_END",
    "PIPE_SERVER_END", "PIPE_TYPE_BYTE", "PIPE_TYPE_MESSAGE",
    "MOVEFILE_COPY_ALLOWED", "MOVEFILE_CREATE_HARDLINK",
    "MOVEFILE_DELAY_UNTIL_REBOOT", "MOVEFILE_FAIL_IF_NOT_TRACKABLE",
    "MOVEFILE_REPLACE_EXISTING", "MOVEFILE_WRITE_THROUGH",
    "SECURITY_ANONYMOUS", "SECURITY_CONTEXT_TRACKING",
    "SECURITY_DELEGATION", "SECURITY_EFFECTIVE_ONLY",
    "SECURITY_IDENTIFICATION", "SECURITY_IMPERSONATION",
    "STANDARD_RIGHTS_READ", "STANDARD_RIGHTS_WRITE", "GENERIC_ALL",
    "GENERIC_READ", "GENERIC_WRITE", "ERROR_INVALID_PARAMETER",
    "ERROR_ACCESS_DENIED", "ERROR_ALREADY_EXISTS", "ERROR_NOT_SAME_DEVICE"
    >>

\* main.c: the '#if !defined(NAME) static const int NAME = literal; #endif'
\* blocks, in file order.
FallbackBlocks == <<
    [name |-> "FILE_FLAG_SESSION_AWARE", lit |-> 8388608],
    [name |-> "STARTF_UNTRUSTEDSOURCE", lit |-> 32768],
    [name |-> "STARTF_PREVENTPINNING", lit |-> 8192],
    [name |-> "STARTF_TITLEISAPPID", lit |-> 4096],
    [name |-> "STARTF_TITLEISLINKNAME", lit |-> 2048] >>

Range(f) == {f[i] : i \in DOMAIN f}

FallbackNames == {b.name : b \in Range(FallbackBlocks)}

LiteralOf(n) == (CHOOSE b \in Range(FallbackBlocks) : b.name = n).lit

TableNames == Range(ConstantsH)

AllNames == TableNames \cup FallbackNames

\* The first line of constants.h that declares the name.
FirstLine(n) == CHOOSE i \in DOMAIN ConstantsH :
                   /\ ConstantsH[i] = n
                   /\ \A j \in DOMAIN ConstantsH : ConstantsH[j] = n => i <= j

\* The value a platform SDK gives a name.  The SDK's numbers are not part
\* of the repository: a name with a literal in main.c has that documented
\* value, or, in an SDK that disagrees with the shim, the next one; any
\* other name has a number of its own.
SdkValue(n, disagrees) ==
    IF n \in FallbackNames
    THEN LiteralOf(n) + (IF disagrees THEN 1 ELSE 0)
    ELSE 1000 + FirstLine(n)

\* Names that older SDKs omit: those main.c has a literal for, and two
\* Vista-era names it has none for.
MaybeMissing == FallbackNames \cup
    {"PROCESS_QUERY_LIMITED_INFORMATION", "CREATE_PROTECTED_PROCESS"}

\* The guard of a fallback block left out: the literal is always compiled.
NotDefinedGuardDropped(env, n) == TRUE

\* '#if !defined(NAME)': the block is compiled when nothing defines NAME.
NotDefined(env, n) == n \notin DOMAIN env

\* 'static const int NAME = literal;' adds NAME to the compiled source.
Define(env, n, v) ==
    [x \in DOMAIN env \cup {n} |->
        IF x = n THEN [val |-> v, from |-> "literal"] ELSE env[x]]

\* A name the compiled source does not define is given the value zero.
EvalConstantOrZero(env, n) ==
    IF n \in DOMAIN env
    THEN [ok |-> TRUE, val |-> env[n].val, from |-> env[n].from]
    ELSE [ok |-> TRUE, val |-> 0, from |-> "default"]

\* '#define NAME ...': the exposed value of NAME is the one NAME has in the
\* compiled C source; a name the source does not define has none.
EvalConstant(env, n) ==
    IF n \in DOMAIN env
    THEN [ok |-> TRUE, val |-> env[n].val, from |-> env[n].from]
    ELSE [ok |-> FALSE, val |-> 0, from |-> "none"]

\* Binding generation starts on some SDK; the compiled source first holds
\* what the platform headers define (#include <windows.h>).
InitConst ==
    /\ \E miss \in SUBSET MaybeMissing :
         \E alt \in SUBSET (FallbackNames \ miss) :
            sdk = [n \in AllNames \ miss |-> SdkValue(n, n \in alt)]
    /\ cenv = [n \in DOMAIN sdk |-> [val |-> sdk[n], from |-> "platform"]]
    /\ phase = "compile"
    /\ spos = 1
    /\ cpos = 1
    /\ lib = << >>
    /\ missing = ""
    /\ dups = {}

\* The compiler reaches the next fallback block of main.c.
CompileShimBlock ==
    /\ phase = "compile"
    /\ LET b == FallbackBlocks[spos] IN
          cenv' = IF NotDefined(cenv, b.name)
                  THEN Define(cenv, b.name, b.lit)
                  ELSE cenv
    /\ spos' = spos + 1
    /\ phase' = IF spos = Len(FallbackBlocks) THEN "bind" ELSE "compile"
    /\ UNCHANGED <<sdk, cpos, lib, missing, dups>>

\* The next line of constants.h names a constant the compiled source
\* defines: the constant is exposed with that value.
BindConstant ==
    /\ phase = "bind"
    /\ LET n == ConstantsH[cpos]
           r == EvalConstant(cenv, n) IN
          /\ r.ok
          /\ lib' = [x \in DOMAIN lib \cup {n} |->
                        IF x = n THEN [val |-> r.val, from |-> r.from]
                        ELSE lib[x]]
          /\ dups' = IF n \in DOMAIN lib THEN dups \cup {n} ELSE dups
    /\ cpos' = cpos + 1
    /\ phase' = IF cpos = Len(ConstantsH) THEN "done" ELSE "bind"
    /\ UNCHANGED <<sdk, cenv, spos, missing>>

\* The next line of constants.h names a constant nothing defines: binding
\* generation stops with an error that names it.
BindFails ==
    /\ phase = "bind"
    /\ LET n == ConstantsH[cpos] IN
          /\ ~EvalConstant(cenv, n).ok
          /\ missing' = n
    /\ phase' = "error"
    /\ UNCHANGED <<sdk, cenv, spos, cpos, lib, dups>>

IdleConst ==
    /\ sdk = << >>
    /\ cenv = << >>
    /\ phase = "off"
    /\ spos = 1
    /\ cpos = 1
    /\ lib = << >>
    /\ missing = ""
    /\ dups = {}


\* C3: a name with a literal in main.c resolves to the platform's value
\* when the platform headers define it (the literal is not used) and to
\* the literal when they omit it; FILE_FLAG_SESSION_AWARE then is
\* 0x00800000.
C3_PlatformThenLiteral ==
    /\ \A i \in 1..(spos - 1) :
          LET b == FallbackBlocks[i] IN
             /\ b.name \in DOMAIN cenv
             /\ cenv[b.name] =
                   IF b.name \in DOMAIN sdk
                   THEN [val |-> sdk[b.name], from |-> "platform"]
                   ELSE [val |-> b.lit, from |-> "literal"]
    /\ \A n \in DOMAIN lib \cap FallbackNames : lib[n] = cenv[n]
    /\ "FILE_FLAG_SESSION_AWARE" \in DOMAIN lib \ DOMAIN sdk
          => lib["FILE_FLAG_SESSION_AWARE"].val = 8388608

\* Binding generation finished on an SDK that omits
\* FILE_FLAG_SESSION_AWARE and defines STARTF_UNTRUSTEDSOURCE with a value
\* of its own.
C3_Witness ==
    /\ phase = "done"
    /\ "FILE_FLAG_SESSION_AWARE" \notin DOMAIN sdk
    /\ lib["FILE_FLAG_SESSION_AWARE"] = [val |-> 8388608, from |-> "literal"]
    /\ "STARTF_UNTRUSTEDSOURCE" \in DOMAIN sdk
    /\ sdk["STARTF_UNTRUSTEDSOURCE"] # 32768
    /\ cenv["STARTF_UNTRUSTEDSOURCE"].val = sdk["STARTF_UNTRUSTEDSOURCE"]

\* The names of the table that neither the platform headers nor a literal
\* of main.c define.
Unresolvable ==
    {n \in TableNames \ FallbackNames : n \notin DOMAIN sdk}

\* C4: a name of the Constant Table that neither the platform headers nor
\* a literal define is never exposed, with zero or any other value;
\* binding generation never gets past it nor finishes, and when it stops
\* it is in the error state, naming that constant.
C4_UnresolvedIsFatal ==
    /\ DOMAIN lib \cap Unresolvable = {}
    /\ \A n \in DOMAIN lib : lib[n].from \in {"platform", "literal"}
    /\ \A n \in Unresolvable : cpos <= FirstLine(n) /\ phase # "done"
    /\ phase = "error" =>
          missing = ConstantsH[cpos] /\ missing \in Unresolvable

\* Binding generation stopped at PROCESS_QUERY_LIMITED_INFORMATION, which
\* the SDK omits and main.c has no literal for.
C4_Witness ==
    /\ phase = "error"
    /\ missing = "PROCESS_QUERY_LIMITED_INFORMATION"
    /\ "PROCESS_QUERY_LIMITED_INFORMATION" \notin DOMAIN lib

\* C5: no constant name is declared by more than one line of constants.h.
C5_NamesUnique == dups = {}


(***************************************************************************)
(*                        Function Signature Table                         *)
(***************************************************************************)

\* headers/kernel32.h, the earlier revision: the tokens of each function
\* line 'RETURNTYPE Name(params);' without commas and the semicolon.
Kernel32H == <<
    <<"HANDLE", "GetCurrentProcess", "(", "void", ")">>,
    <<"DWORD", "GetCurrentProcessId", "(", "void", ")">>,
    <<"DWORD", "GetProcessId", "(", "HANDLE", ")">>,
    <<"BOOL", "OpenProcess", "(", "DWORD", "BOOL", "DWORD", ")">>,
    <<"BOOL", "CreatePipe", "(", "PHANDLE", "PHANDLE",
      "LPSECURITY_ATTRIBUTES", "DWORD", ")">>,
    <<"BOOL", "CloseHandle", "(", "HANDLE", ")">>,
    <<"BOOL", "WriteFile", "(", "HANDLE", "LPCVOID", "DWORD", "LPDWORD",
      "LPOVERLAPPED", ")">>,
    <<"BOOL", "ReadFile", "(", "HANDLE", "LPCVOID", "DWORD", "LPDWORD",
      "LPOVERLAPPED", ")">> >>

\* core/cdefs/headers/functions.h, the later revision.
FunctionsH == <<
    <<"VOID", "SetLastError", "(", "DWORD", ")">>,
    <<"HANDLE", "OpenProcess", "(", "DWORD", "BOOL", "DWORD", ")">>,
    <<"HANDLE", "GetCurrentProcess", "(", ")">>,
    <<"DWORD", "GetProcessId", "(", "HANDLE", ")">>,
    <<"BOOL", "CreatePipe", "(", "PHANDLE", "PHANDLE",
      "LPSECURITY_ATTRIBUTES", "DWORD", ")">>,
    <<"BOOL", "PeekNamedPipe", "(", "HANDLE", "LPVOID", "DWORD", "LPDWORD",
      "LPDWORD", "LPDWORD", ")">>,
    <<"BOOL", "GetNamedPipeInfo", "(", "HANDLE", "LPDWORD", "LPDWORD",
      "LPDWORD", "LPDWORD", ")">>,
    <<"BOOL", "SetNamedPipeHandleState", "(", "HANDLE", "LPDWORD",
      "LPDWORD", "LPDWORD", ")">>,
    <<"BOOL", "GetNamedPipeHandleState", "(", "HANDLE", "LPDWORD",
      "LPDWORD", "LPDWORD", "LPDWORD", "LPTSTR", "DWORD", ")">>,
    <<"BOOL", "WriteFile", "(", "HANDLE", "LPCVOID", "DWORD", "LPDWORD",
      "LPOVERLAPPED", ")">>,
    <<"BOOL", "ReadFile", "(", "HANDLE", "LPVOID", "DWORD", "LPDWORD",
      "LPOVERLAPPED", ")">>,
    <<"HANDLE", "handle_from_fd", "(", "int", ")">>,
    <<"BOOL", "CloseHandle", "(", "HANDLE", ")">>,
    <<"HANDLE", "GetStdHandle", "(", "DWORD", ")">> >>

\* main.c: the functions the repository's own C shim implements.
ShimFunctions == {"handle_from_fd", "socket_from_fd"}

\* A parameter list '(void)' declares no parameters, like '()'.
ParamTypes(ps) == IF ps = <<"void">> THEN << >> ELSE ps

\* A parser that takes the first token of a line for the function's name.
ParseDeclFirstToken(toks) ==
    [name |-> toks[1], ret |-> toks[1],
     params |-> ParamTypes(SubSeq(toks, 4, Len(toks) - 1))]

\* A line 'RETURN_TYPE FunctionName(...': the return type, the name and
\* the parameter types between the parentheses.
ParseDecl(toks) ==
    [name |-> toks[2], ret |-> toks[1],
     params |-> ParamTypes(SubSeq(toks, 4, Len(toks) - 1))]

\* The stub table with the stub of one more declaration.
AddStub(stubs, d) ==
    [x \in DOMAIN stubs \cup {d.name} |->
        IF x = d.name THEN [ret |-> d.ret, params |-> d.params]
        ELSE stubs[x]]

InitFunc ==
    /\ k32pos = 1
    /\ fnpos = 1
    /\ stubs1 = << >>
    /\ stubs2 = << >>

IdleFunc == InitFunc

\* The generator reads the next declaration of kernel32.h.
ScanKernel32 ==
    /\ k32pos <= Len(Kernel32H)
    /\ stubs1' = AddStub(stubs1, ParseDecl(Kernel32H[k32pos]))
    /\ k32pos' = k32pos + 1
    /\ UNCHANGED <<fnpos, stubs2>>

\* The generator reads the next declaration of functions.h.
ScanFunctions ==
    /\ fnpos <= Len(FunctionsH)
    /\ stubs2' = AddStub(stubs2, ParseDecl(FunctionsH[fnpos]))
    /\ fnpos' = fnpos + 1
    /\ UNCHANGED <<k32pos, stubs1>>

BothScanned == k32pos > Len(Kernel32H) /\ fnpos > Len(FunctionsH)

\* The additions the later revision is said to carry, each with the
\* native exports that would provide it: the exit code of a process, pipe
\* peek, pipe info, file locking, standard-handle lookup.
Additions ==
    {{"GetExitCodeProcess"}, {"PeekNamedPipe"}, {"GetNamedPipeInfo"},
     {"LockFile", "LockFileEx"}, {"GetStdHandle"}}

\* C6: every function of the earlier revision is declared by the later
\* one, which also carries the listed additions.
C6_LaterIsSuperset ==
    BothScanned =>
        /\ DOMAIN stubs1 \subseteq DOMAIN stubs2
        /\ \A a \in Additions : a \cap DOMAIN stubs2 # {}

\* C9 as stated: no entry of functions.h names a function that the
\* repository's own C shim implements.
C9_NoShimFunction == DOMAIN stubs2 \cap ShimFunctions = {}

\* C9 as amended: exactly one entry of functions.h, handle_from_fd, names
\* a function of the C shim; no other entry does, and socket_from_fd is
\* not declared.
C9_OnlyHandleFromFd ==
    /\ DOMAIN stubs2 \cap ShimFunctions \subseteq {"handle_from_fd"}
    /\ fnpos > Len(FunctionsH) =>
          /\ DOMAIN stubs2 \cap ShimFunctions = {"handle_from_fd"}
          /\ Cardinality(DOMAIN stubs2 \ ShimFunctions)
                = Len(FunctionsH) - 1

\* functions.h was read to its end and handle_from_fd got its stub.
C9_Witness ==
    /\ fnpos > Len(FunctionsH)
    /\ "handle_from_fd" \in DOMAIN stubs2
    /\ stubs2["handle_from_fd"] = [ret |-> "HANDLE", params |-> <<"int">>]

\* C10: a function declared in both revisions has the same return type and
\* the same ordered parameter types in both.
C10_SameSignature ==
    \A f \in DOMAIN stubs1 \cap DOMAIN stubs2 : stubs1[f] = stubs2[f]



(***************************************************************************)
(*                         OVERLAPPED (structs.h)                          *)
(***************************************************************************)

\* The byte patterns a store writes are numbered 0..MaxPattern.
MaxPattern == 2

Fld(n, t) == [kind |-> "field", name |-> n, type |-> t]

\* typedef struct _OVERLAPPED { ... } OVERLAPPED, *LPOVERLAPPED;
OverlappedDecl ==
    [kind |-> "struct", members |-> <<
        Fld("Internal", "ULONG_PTR"),
        Fld("InternalHigh", "ULONG_PTR"),
        [kind |-> "union", members |-> <<
            [kind |-> "struct", members |-> <<
                Fld("Offset", "DWORD"),
                Fld("OffsetHigh", "DWORD") >>],
            Fld("Pointer", "PVOID") >>],
        Fld("hEvent", "HANDLE") >>]

\* The size in bytes of a scalar type; a scalar is aligned to its size.
TypeSize(b, t) == IF t = "DWORD" THEN 4 ELSE PointerSize(b)

RoundUp(n, a) == ((n + a - 1) \div a) * a

SetMax(S) == CHOOSE x \in S : \A y \in S : y <= x

RECURSIVE AlignOf(_, _), SizeOf(_, _), MemberOffset(_, _, _)
RECURSIVE MemberOffsetSequential(_, _, _), FieldsOf(_, _, _)

\* The alignment of a declaration: that of its most aligned member.
AlignOf(b, d) ==
    IF d.kind = "field" THEN TypeSize(b, d.type)
    ELSE SetMax({AlignOf(b, d.members[i]) : i \in DOMAIN d.members})

\* A layout that places the members of a union one after the other, as if
\* it were a struct.
MemberOffsetSequential(b, d, i) ==
    IF i = 1 THEN 0
    ELSE RoundUp(MemberOffsetSequential(b, d, i - 1)
                    + SizeOf(b, d.members[i - 1]),
                 AlignOf(b, d.members[i]))

\* The offset of member i in d: every member of a union starts at 0; a
\* member of a struct follows the one before it, at its own alignment.
MemberOffset(b, d, i) ==
    IF d.kind = "union" \/ i = 1 THEN 0
    ELSE RoundUp(MemberOffset(b, d, i - 1) + SizeOf(b, d.members[i - 1]),
                 AlignOf(b, d.members[i]))

\* The size of a declaration, padded to its alignment.
SizeOf(b, d) ==
    IF d.kind = "field" THEN TypeSize(b, d.type)
    ELSE RoundUp(SetMax({MemberOffset(b, d, i) + SizeOf(b, d.members[i])
                            : i \in DOMAIN d.members}),
                 AlignOf(b, d))

\* The named fields of d, laid out from offset base: [name, off, size].
FieldsOf(b, d, base) ==
    IF d.kind = "field"
    THEN {[name |-> d.name, off |-> base, size |-> TypeSize(b, d.type)]}
    ELSE UNION {FieldsOf(b, d.members[i], base + MemberOffset(b, d, i))
                   : i \in DOMAIN d.members}

\* The layout of OVERLAPPED on each build.
OvLayout32 == FieldsOf("win32", OverlappedDecl, 0)

OvLayout64 == FieldsOf("win64", OverlappedDecl, 0)

OvSize32 == SizeOf("win32", OverlappedDecl)

OvSize64 == SizeOf("win64", OverlappedDecl)

OvField(b, n) ==
    CHOOSE f \in (IF b = "win64" THEN OvLayout64 ELSE OvLayout32) :
        f.name = n

OvFieldNames ==
    {"Internal", "InternalHigh", "Offset", "OffsetHigh", "Pointer", "hEvent"}

\* The bytes a load of field f observes, lowest address first.
ReadField(mem, f) == [i \in 1..f.size |-> mem[f.off + i - 1]]

\* The record after a store of bytes to field f.
WriteField(mem, f, bytes) ==
    [a \in DOMAIN mem |->
        IF a >= f.off /\ a < f.off + f.size THEN bytes[a - f.off + 1]
        ELSE mem[a]]

\* Pattern v of a given size: no two of its bytes are equal, and none is 0.
Pattern(v, size) == [i \in 1..size |-> 16 * v + i]

Ov(n) == ReadField(ovMem, OvField(build, n))

\* The same load in the next state.
OvNext(n) == ReadField(ovMem', OvField(build, n))

\* A new record, zero-filled, on either build.
InitOv ==
    /\ build \in {"win32", "win64"}
    /\ ovMem = [a \in 0..((IF build = "win64" THEN OvSize64 ELSE OvSize32)
                              - 1) |-> 0]
    /\ ovLast = [field |-> "none", val |-> << >>]

IdleOv ==
    /\ ovMem = << >>
    /\ ovLast = [field |-> "none", val |-> << >>]

\* The caller (or the kernel) stores a value to one field of the record.
StoreField ==
    /\ UNCHANGED build
    /\ \E n \in OvFieldNames : \E v \in 0..MaxPattern :
        LET f == OvField(build, n) IN
           /\ ovMem' = WriteField(ovMem, f, Pattern(v, f.size))
           /\ ovLast' = [field |-> n, val |-> Pattern(v, f.size)]

\* C7 as stated: the Offset/OffsetHigh pair and Pointer are the same
\* bytes: after a store to Offset or OffsetHigh a load of Pointer observes
\* the bytes of the pair, and after a store to Pointer a load of the pair
\* observes the bytes stored.
C7_PairIsPointer ==
    /\ ovLast.field \in {"Offset", "OffsetHigh"} =>
          Ov("Pointer") = Ov("Offset") \o Ov("OffsetHigh")
    /\ ovLast.field = "Pointer" =>
          Ov("Offset") \o Ov("OffsetHigh") = ovLast.val

\* C7 as amended: Pointer is the first sizeof(PVOID) bytes of the
\* Offset/OffsetHigh pair: the whole pair on a 64-bit build, Offset alone
\* on a 32-bit build, where a store to Pointer leaves OffsetHigh as it was
\* and a store to OffsetHigh leaves Pointer as it was.  A store to Offset,
\* OffsetHigh or Pointer leaves Internal, InternalHigh and hEvent
\* unchanged.
C7_PointerAliasesPairPrefix ==
    [][LET P == PointerSize(build)
           pair == OvNext("Offset") \o OvNext("OffsetHigh")
       IN  /\ OvNext("Pointer") = SubSeq(pair, 1, P)
           /\ ovLast'.field \in {"Offset", "OffsetHigh", "Pointer"} =>
                 /\ OvNext(ovLast'.field) = ovLast'.val
                 /\ OvNext("Internal") = Ov("Internal")
                 /\ OvNext("InternalHigh") = Ov("InternalHigh")
                 /\ OvNext("hEvent") = Ov("hEvent")
           /\ ovLast'.field = "Offset" =>
                 OvNext("OffsetHigh") = Ov("OffsetHigh")
           /\ ovLast'.field = "OffsetHigh" =>
                 OvNext("Offset") = Ov("Offset")
           /\ ovLast'.field = "Pointer" /\ P = 4 =>
                 OvNext("OffsetHigh") = Ov("OffsetHigh")
           /\ ovLast'.field = "OffsetHigh" /\ P = 4 =>
                 OvNext("Pointer") = Ov("Pointer")
      ]_vars

\* On a 32-bit build Pointer was stored after OffsetHigh: Offset reads the
\* bytes stored and OffsetHigh still reads its own.
C7_Witness ==
    /\ build = "win32"
    /\ ovLast = [field |-> "Pointer", val |-> Pattern(1, 4)]
    /\ Ov("Offset") = Pattern(1, 4)
    /\ Ov("OffsetHigh") = Pattern(2, 4)

(***************************************************************************)
(*                            Specifications                               *)
(***************************************************************************)

NextFd ==
    \/ CallHandleFromFd /\ UNCHANGED <<constVars, funcVars, ovVars>>
    \/ CallSocketFromFd /\ UNCHANGED <<constVars, funcVars, ovVars>>

InitFdSpec == InitFd /\ IdleConst /\ IdleFunc /\ IdleOv

\* The FD Adapter, called by an application.
SpecFd == InitFdSpec /\ [][NextFd]_vars

NextConst ==
    \/ CompileShimBlock /\ UNCHANGED <<fdVars, funcVars, ovVars>>
    \/ BindConstant /\ UNCHANGED <<fdVars, funcVars, ovVars>>
    \/ BindFails /\ UNCHANGED <<fdVars, funcVars, ovVars>>

InitConstSpec == build = "win32" /\ IdleFd /\ InitConst /\ IdleFunc /\ IdleOv

\* Binding generation over the Constant Table.
SpecConst == InitConstSpec /\ [][NextConst]_vars

NextFunc ==
    \/ ScanKernel32 /\ UNCHANGED <<fdVars, constVars, ovVars>>
    \/ ScanFunctions /\ UNCHANGED <<fdVars, constVars, ovVars>>

InitFuncSpec == build = "win32" /\ IdleFd /\ IdleConst /\ InitFunc /\ IdleOv

\* Stub generation from the two revisions of the Function Signature Table.
SpecFunc == InitFuncSpec /\ [][NextFunc]_vars

NextOv == StoreField /\ UNCHANGED <<osfhnd, heap, crashed, ncalls, last,
                                    constVars, funcVars>>

InitOvSpec == InitOv /\ IdleFd /\ IdleConst /\ IdleFunc

\* Stores to and loads from one OVERLAPPED record.
SpecOv == InitOvSpec /\ [][NextOv]_vars

=============================================================================
